---------------------------- MODULE Spec2Model ----------------------------
(***************************************************************************)
(* A model of memory_network_q1.py (ChatSam/ref_bot): the bAbI tokenizer,  *)
(* the story parser, get_stories, the vocabulary and vectorization steps,  *)
(* the load-or-train block and the interactive demo loop.                  *)
(*                                                                         *)
(* The script is Python 2 (raw_input, list-returning map, and an re.split  *)
(* that never splits on an empty match).  A Python string is modelled as a *)
(* sequence of one-character strings, a token list as a sequence of such   *)
(* sequences.                                                              *)
(***************************************************************************)
EXTENDS Integers, Sequences, FiniteSets, TLC

VARIABLES
    pc,              \* position of the running code
    (* tokenize *)
    sent,            \* tokenize's argument
    tokens,          \* tokenize's return value
    (* parse_stories / get_stories *)
    only_supporting, \* parse_stories' flag
    lines,           \* the lines the loop of parse_stories has consumed
    story,           \* parse_stories' story buffer
    data,            \* parse_stories' data, then get_stories' return value
    max_length,      \* get_stories' max_length (0 stands for a falsy value)
    (* module level of the script *)
    path,            \* result of get_file
    tar,             \* result of tarfile.open
    out,             \* what the script has printed, in order
    train_stories, test_stories,
    vocab, vocab_size, story_maxlen, query_maxlen, word_idx,
    inputs_train, queries_train, answers_train,
    inputs_test, queries_test, answers_test,
    model,           \* the module-level name `model`
    trained,         \* whether model.fit has run
    saved,           \* whether model.save(model_name) has run
    (* run_demo / get_answer *)
    demo_model,      \* run_demo's parameter `model`
    demo_story,      \* run_demo's local `story_list`
    qu,              \* the last raw_input
    input_story,     \* the row handed to get_answer
    q,               \* vectorize_query's result
    pred_results3,   \* model.predict(...)[0]
    val_max2,        \* np.argmax(pred_results3[0])
    final_answer, confidence,
    shown            \* what the current iteration of the demo loop printed

tokVars    == <<sent, tokens>>
parseVars  == <<only_supporting, lines, story, data, max_length>>
loadVars   == <<path, tar, train_stories, test_stories>>
vocabVars  == <<vocab, vocab_size, story_maxlen, query_maxlen, word_idx>>
vecVars    == <<inputs_train, queries_train, answers_train,
                inputs_test, queries_test, answers_test>>
modelVars  == <<model, trained, saved>>
demoVars   == <<demo_model, demo_story, qu, input_story, q, pred_results3,
                val_max2, final_answer, confidence, shown>>
scriptVars == <<loadVars, vocabVars, vecVars, modelVars, demoVars, out>>
vars       == <<pc, tokVars, parseVars, scriptVars>>

---------------------------------------------------------------------------
(* Bounds of the model. *)

\* longest sentence handed to tokenize in SpecTok
MaxSentLen == 4
\* most lines fed to one call of parse_stories in SpecStories
MaxLines == 3
\* most lines of one story of a dataset file of the script
MaxBlockLines == 2

---------------------------------------------------------------------------
(* Strings. *)

WordChars  == {"a", "b", "c", "q"}
Whitespace == {" "}
Punct      == {".", "?"}
Chars      == WordChars \cup Whitespace \cup Punct

\* \W of the pattern: anything that is not [a-zA-Z0-9_]
IsNonWord(c) == c \notin WordChars

\* code points, the order sorted() uses on strings
Ord(c) ==
    CASE c = " " -> 32
      [] c = "." -> 46
      [] c = "?" -> 63
      [] c = "a" -> 97
      [] c = "b" -> 98
      [] c = "c" -> 99
      [] c = "q" -> 113

\* s[i..j] as Python's s[i-1:j]
Slice(s, i, j) == IF i > j THEN <<>> ELSE SubSeq(s, i, j)

RECURSIVE LStrip(_)
LStrip(s) ==
    IF s # <<>> /\ Head(s) \in Whitespace THEN LStrip(Tail(s)) ELSE s

RECURSIVE RStrip(_)
RStrip(s) ==
    IF s # <<>> /\ s[Len(s)] \in Whitespace
    THEN RStrip(SubSeq(s, 1, Len(s) - 1))
    ELSE s

\* str.strip()
C6_NoStrip(s) == s
Strip(s) == RStrip(LStrip(s))

\* the end of the greedy match of \W+ that starts at i (i itself when empty)
RECURSIVE MatchEnd(_, _)
MatchEnd(s, i) ==
    IF i <= Len(s) /\ IsNonWord(s[i]) THEN MatchEnd(s, i + 1) ELSE i

\* re.split('(\W+)?', s) from position pos on, `start` being the end of the
\* last split: an empty match is skipped, a non-empty one cuts the piece
\* before it and is itself returned, as the group is capturing
RECURSIVE ReSplitFrom(_, _, _)
ReSplitFrom(s, start, pos) ==
    IF pos > Len(s)
    THEN <<Slice(s, start, Len(s))>>
    ELSE LET e == MatchEnd(s, pos)
         IN  IF e = pos
             THEN ReSplitFrom(s, start, pos + 1)
             ELSE <<Slice(s, start, pos - 1), Slice(s, pos, e - 1)>>
                      \o ReSplitFrom(s, e, e)

ReSplit(s) == ReSplitFrom(s, 1, 1)

\* [x.strip() for x in pieces if x.strip()]
RECURSIVE StripNonEmpty(_)
StripNonEmpty(pieces) ==
    IF pieces = <<>>
    THEN <<>>
    ELSE LET x == Strip(Head(pieces))
         IN  (IF x # <<>> THEN <<x>> ELSE <<>>) \o StripNonEmpty(Tail(pieces))

tokenize(s) == StripNonEmpty(ReSplit(s))

---------------------------------------------------------------------------
(* parse_stories and get_stories. *)

(***************************************************************************)
(* A line of a bAbI file, after line.split(' ', 1) and int(nid):           *)
(*   nid         the number the line starts with                           *)
(*   tab         whether the rest holds a tab, i.e. is a question line     *)
(*   text        the statement, or the question before the first tab       *)
(*   a           the answer, between the tabs                              *)
(*   supporting  the numbers after the second tab                          *)
(***************************************************************************)
Statement(n, t)      == [nid |-> n, tab |-> FALSE, text |-> t,
                         a |-> <<>>, supporting |-> <<>>]
Question(n, t, a, s) == [nid |-> n, tab |-> TRUE, text |-> t,
                         a |-> a, supporting |-> s]

\* Python's None where an integer is expected (max_length=None)
None == -1

\* the '' that parse_stories appends to story for a question line; a
\* tokenized statement is never empty, so <<>> stands for '' alone
EmptyStr == <<>>

\* if nid == 1: story = []
C9_KeepStory(st, nid) == st
StoryAtLine(st, nid) == IF nid = 1 THEN <<>> ELSE st

\* some story[i - 1] is out of range (the ids are positive)
SupportingRaises(st, supporting) ==
    \E i \in 1..Len(supporting) : supporting[i] > Len(st)

\* [story[i - 1] for i in supporting]
SupportingSubstory(st, supporting) ==
    [i \in 1..Len(supporting) |-> st[supporting[i]]]

\* [x for x in story if x]
AllSubstory(st) == SelectSeq(st, LAMBDA x : x # EmptyStr)

\* story.append('') after a question
C5_NoAppend(st) == st
StoryAfterQuestion(st) == Append(st, EmptyStr)

\* one iteration of the loop of parse_stories on state [story, data, err]
ParseStep(st, line, os) ==
    LET s0 == StoryAtLine(st.story, line.nid)
    IN  IF line.tab
        THEN IF os /\ SupportingRaises(s0, line.supporting)
             THEN [story |-> s0, data |-> st.data, err |-> "IndexError"]
             ELSE LET substory == IF os
                                  THEN SupportingSubstory(s0, line.supporting)
                                  ELSE AllSubstory(s0)
                  IN  [story |-> StoryAfterQuestion(s0),
                       data  |-> Append(st.data,
                                        <<substory, tokenize(line.text), line.a>>),
                       err   |-> "none"]
        ELSE [story |-> Append(s0, tokenize(line.text)),
              data  |-> st.data,
              err   |-> "none"]

RECURSIVE ParseFrom(_, _, _)
ParseFrom(st, ls, os) ==
    IF ls = <<>> \/ st.err # "none"
    THEN st
    ELSE ParseFrom(ParseStep(st, Head(ls), os), Tail(ls), os)

\* parse_stories(lines, only_supporting): [data, err]
parse_stories(ls, os) ==
    ParseFrom([story |-> <<>>, data |-> <<>>, err |-> "none"], ls, os)

\* reduce(lambda x, y: x + y, data) raises on an empty list and on list + ''
FlattenRaises(sub) ==
    \/ sub = <<>>
    \/ \E i, j \in 1..Len(sub) : sub[i] = EmptyStr /\ sub[j] # EmptyStr

RECURSIVE flatten(_)
flatten(sub) == IF sub = <<>> THEN <<>> ELSE Head(sub) \o flatten(Tail(sub))

\* not max_length or len(flatten(story)) < max_length
Kept(rec, ml) == ml = None \/ ml = 0 \/ Len(flatten(rec[1])) < ml

\* line 84 of get_stories on parsed data d: [data, err]
FilterStories(d, ml) ==
    IF \E i \in 1..Len(d) : FlattenRaises(d[i][1])
    THEN [data |-> <<>>, err |-> "TypeError"]
    ELSE LET kept == SelectSeq(d, LAMBDA rec : Kept(rec, ml))
         IN  [data |-> [i \in 1..Len(kept) |->
                           <<flatten(kept[i][1]), kept[i][2], kept[i][3]>>],
              err  |-> "none"]

\* get_stories(f, only_supporting, max_length): [data, err]
get_stories(ls, os, ml) ==
    LET p == parse_stories(ls, os)
    IN  IF p.err # "none"
        THEN [data |-> <<>>, err |-> p.err]
        ELSE FilterStories(p.data, ml)

---------------------------------------------------------------------------
(* Vocabulary and vectorization. *)

Range(f) == {f[i] : i \in DOMAIN f}

\* s < t for Python strings: by code point, a proper prefix first
RECURSIVE StrLess(_, _)
StrLess(s, t) ==
    IF t = <<>> THEN FALSE
    ELSE IF s = <<>> THEN TRUE
    ELSE IF Ord(Head(s)) # Ord(Head(t)) THEN Ord(Head(s)) < Ord(Head(t))
    ELSE StrLess(Tail(s), Tail(t))

\* sorted(S) for a set of strings
RECURSIVE Sorted(_)
Sorted(S) ==
    IF S = {}
    THEN <<>>
    ELSE LET m == CHOOSE x \in S : \A y \in S \ {x} : StrLess(x, y)
         IN  <<m>> \o Sorted(S \ {m})

\* vocab |= set(story + q + [answer]) over the records
VocabSet(stories) ==
    UNION {Range(stories[i][1]) \cup Range(stories[i][2]) \cup {stories[i][3]} :
              i \in 1..Len(stories)}

\* max(map(len, ...)) over field f of the records (not called on no records)
MaxLenOf(stories, f) ==
    LET lens == {Len(stories[i][f]) : i \in 1..Len(stories)}
    IN  CHOOSE m \in lens : \A n \in lens : n <= m

\* the same with min for max
C7_MinLenOf(stories, f) ==
    LET lens == {Len(stories[i][f]) : i \in 1..Len(stories)}
    IN  CHOOSE m \in lens : \A n \in lens : m <= n

C7_Shortest(train, test) == C7_MinLenOf(train \o test, 1)
StoryMaxlen(train, test) == MaxLenOf(train \o test, 1)
QueryMaxlen(train, test) == MaxLenOf(train \o test, 2)

\* dict((c, i + 1) for i, c in enumerate(vocab))
C1_FromZero(v) == [c \in Range(v) |-> (CHOOSE i \in 1..Len(v) : v[i] = c) - 1]
WordIdx(v) == [c \in Range(v) |-> CHOOSE i \in 1..Len(v) : v[i] = c]

Zeros(n) == [i \in 1..n |-> 0]

\* one row of keras' pad_sequences(X, maxlen=maxlen): padding='pre',
\* truncating='pre', value=0
PadRow(x, maxlen) ==
    LET trunc == IF Len(x) > maxlen
                 THEN SubSeq(x, Len(x) - maxlen + 1, Len(x))
                 ELSE x
    IN  Zeros(maxlen - Len(trunc)) \o trunc

pad_sequences(X, maxlen) == [i \in 1..Len(X) |-> PadRow(X[i], maxlen)]

\* [word_idx[w] for w in ws] raises KeyError on a word without an index
Unknown(ws, widx) == \E i \in 1..Len(ws) : ws[i] \notin DOMAIN widx
Indices(ws, widx) == [i \in 1..Len(ws) |-> widx[ws[i]]]

\* y = np.zeros(len(word_idx) + 1); y[word_idx[answer]] = 1
OneHot(answer, widx) ==
    [i \in 1..(Cardinality(DOMAIN widx) + 1) |->
        IF i = widx[answer] + 1 THEN 1 ELSE 0]

\* vectorize_stories: [X, Xq, Y, err]
vectorize_stories(stories, widx, smax, qmax) ==
    IF \E i \in 1..Len(stories) :
          \/ Unknown(stories[i][1], widx)
          \/ Unknown(stories[i][2], widx)
          \/ stories[i][3] \notin DOMAIN widx
    THEN [X |-> <<>>, Xq |-> <<>>, Y |-> <<>>, err |-> "KeyError"]
    ELSE [X   |-> pad_sequences([i \in 1..Len(stories) |->
                                    Indices(stories[i][1], widx)], smax),
          Xq  |-> pad_sequences([i \in 1..Len(stories) |->
                                    Indices(stories[i][2], widx)], qmax),
          Y   |-> [i \in 1..Len(stories) |-> OneHot(stories[i][3], widx)],
          err |-> "none"]

\* vectorize_query: [Xq, err]
vectorize_query(text, widx, qmax) ==
    LET toks == tokenize(text)
    IN  IF Unknown(toks, widx)
        THEN [Xq |-> <<>>, err |-> "KeyError"]
        ELSE [Xq |-> pad_sequences(<<Indices(toks, widx)>>, qmax),
              err |-> "none"]

---------------------------------------------------------------------------
(* get_answer. *)

\* n = 10 in run_demo
DemoIndex == 10

\* the string 'answer not found'
NotFound == <<"a", "n", "s", "w", "e", "r", " ", "n", "o", "t", " ",
              "f", "o", "u", "n", "d">>

\* np.argmax: the first position (from 0) of the largest entry
ArgMax(pred) ==
    CHOOSE i \in 0..(Len(pred) - 1) :
        /\ \A j \in 0..(Len(pred) - 1) : pred[j + 1] <= pred[i + 1]
        /\ \A j \in 0..(i - 1) : pred[j + 1] < pred[i + 1]

\* k = "answer not found"; for key, val in word_idx.items(): if val ==
\* val_max2: k = key
C10_OffByOne(widx, v) ==
    LET hits == {key \in DOMAIN widx : widx[key] = v + 1}
    IN  IF hits = {} THEN NotFound ELSE CHOOSE key \in hits : TRUE
AnswerKey(widx, v) ==
    LET hits == {key \in DOMAIN widx : widx[key] = v}
    IN  IF hits = {} THEN NotFound ELSE CHOOSE key \in hits : TRUE

\* ' '.join(word for word in story_list)
RECURSIVE Join(_)
Join(ws) ==
    IF ws = <<>> THEN <<>>
    ELSE IF Len(ws) = 1 THEN ws[1]
    ELSE ws[1] \o <<" ">> \o Join(Tail(ws))

---------------------------------------------------------------------------
(* Values of the variables a specification does not use. *)

IdleTok   == sent = <<>> /\ tokens = <<>>
IdleParse == /\ only_supporting = FALSE
             /\ lines = <<>>
             /\ story = <<>>
             /\ data = <<>>
             /\ max_length = None
IdleScript ==
    /\ path = "unset" /\ tar = "unset" /\ out = <<>>
    /\ train_stories = <<>> /\ test_stories = <<>>
    /\ vocab = <<>> /\ vocab_size = 0
    /\ story_maxlen = 0 /\ query_maxlen = 0 /\ word_idx = <<>>
    /\ inputs_train = <<>> /\ queries_train = <<>> /\ answers_train = <<>>
    /\ inputs_test = <<>> /\ queries_test = <<>> /\ answers_test = <<>>
    /\ model = "unset" /\ trained = FALSE /\ saved = FALSE
    /\ demo_model = "unset" /\ demo_story = <<>> /\ qu = <<>>
    /\ input_story = <<>> /\ q = <<>> /\ pred_results3 = <<>>
    /\ val_max2 = 0 /\ final_answer = <<>> /\ confidence = 0
    /\ shown = <<>>

---------------------------------------------------------------------------
(* parse_stories line by line, then the rest of get_stories: every file of *)
(* at most MaxLines lines over a small set of statements and questions.    *)

TextAB == <<"a", " ", "b", ".">>
TextC  == <<"c", ".">>
TextQ  == <<"b", "?">>

StatementTexts == {TextAB, TextC}
Answers        == {<<"a">>, <<"c">>}

\* a question of the two challenges names one or two supporting facts
SupportingLens == {1, 2}

\* the number a well-formed file gives the next line
NextNid == IF lines = <<>> THEN 1 ELSE lines[Len(lines)].nid + 1

\* a new story, the next line of this one, or a skipped number
NidChoices == {1, NextNid, NextNid + 1}

\* the supporting numbers of a question line: one or two ids that point at
\* lines of the story read so far or one past its end; without
\* only_supporting line 61 does not run and the numbers are never read, so
\* one value stands for all
SupportingChoices ==
    IF only_supporting
    THEN UNION {[1..k -> 1..(Len(story) + 1)] : k \in SupportingLens}
    ELSE {<<1>>}

\* the lines a file may hold next
LineChoices ==
    {Statement(n, t) : n \in NidChoices, t \in StatementTexts}
    \cup {Question(n, TextQ, a, sp) :
             n \in NidChoices, a \in Answers, sp \in SupportingChoices}

InitStories ==
    /\ pc = "parse"
    /\ only_supporting \in BOOLEAN
    /\ lines = <<>>
    /\ story = <<>>
    /\ data = <<>>
    /\ max_length = None
    /\ IdleTok /\ IdleScript

\* one iteration of `for line in lines`
ParseLine ==
    /\ pc = "parse"
    /\ Len(lines) < MaxLines
    /\ \E line \in LineChoices :
          LET st == ParseStep([story |-> story, data |-> data, err |-> "none"],
                              line, only_supporting)
          IN  /\ lines' = Append(lines, line)
              /\ story' = st.story
              /\ data' = st.data
              /\ pc' = IF st.err = "none" THEN "parse" ELSE st.err
    /\ UNCHANGED <<only_supporting, max_length, tokVars, scriptVars>>

\* the loop ends: return data
ParseReturn ==
    /\ pc = "parse"
    /\ pc' = "parsed"
    /\ UNCHANGED <<tokVars, parseVars, scriptVars>>

\* the longest flattened story of the parsed data
MaxFlat(d) ==
    LET lens == {Len(flatten(d[i][1])) : i \in 1..Len(d)} \cup {0}
    IN  CHOOSE m \in lens : \A n \in lens : n <= m

\* lines 83-85 of get_stories, for max_length None, 0, or a length around
\* those of the parsed stories
FlattenAndFilter ==
    /\ pc = "parsed"
    /\ \E ml \in {None} \cup 0..(MaxFlat(data) + 1) :
          LET r == FilterStories(data, ml)
          IN  /\ max_length' = ml
              /\ data' = r.data
              /\ pc' = IF r.err = "none" THEN "got" ELSE r.err
    /\ UNCHANGED <<only_supporting, lines, story, tokVars, scriptVars>>

NextStories == ParseLine \/ ParseReturn \/ FlattenAndFilter

SpecStories == InitStories /\ [][NextStories]_vars

---------------------------------------------------------------------------
(* tokenize on its own: every sentence of at most MaxSentLen characters. *)

Strings(n) == UNION {[1..k -> Chars] : k \in 0..n}

InitTok ==
    /\ pc = "tokenize"
    /\ sent \in Strings(MaxSentLen)
    /\ tokens = <<>>
    /\ IdleParse /\ IdleScript

TokenizeCall ==
    /\ pc = "tokenize"
    /\ tokens' = tokenize(sent)
    /\ pc' = "tokenized"
    /\ UNCHANGED <<sent, parseVars, scriptVars>>

NextTok == TokenizeCall

SpecTok == InitTok /\ [][NextTok]_vars

---------------------------------------------------------------------------
(* The script, top to bottom.  The archive holds a train and a test file,  *)
(* each a story of at most MaxBlockLines lines, numbered from 1, repeated. *)

TextCA == <<"c", " ", "a", "?">>

LineKinds == {"s1", "s2", "q1", "q2"}

\* line number n of a story, of the given kind
KindLine(kind, n) ==
    CASE kind = "s1" -> Statement(n, TextAB)
      [] kind = "s2" -> Statement(n, TextC)
      [] kind = "q1" -> Question(n, TextQ, <<"a">>, <<1>>)
      [] kind = "q2" -> Question(n, TextCA, <<"c">>, <<1>>)

Blocks == UNION {[1..k -> LineKinds] : k \in 1..MaxBlockLines}

\* a file: the story `block`, reps times over
FileLines(block, reps) ==
    [i \in 1..(reps * Len(block)) |->
        KindLine(block[((i - 1) % Len(block)) + 1], ((i - 1) % Len(block)) + 1)]

\* a test file of one story, or of enough stories for run_demo's index
TestReps == {1, DemoIndex + 1}

Msg(k) == [kind |-> k]

Init ==
    /\ pc = "get_file"
    /\ IdleTok /\ IdleParse /\ IdleScript

\* line 135: get_file returns the path of the archive
GetFileOk ==
    /\ pc = "get_file"
    /\ path' = "babi-tasks-v1-2.tar.gz"
    /\ pc' = "tar_open"
    /\ UNCHANGED <<tokVars, parseVars, tar, train_stories, test_stories,
                   vocabVars, vecVars, modelVars, demoVars, out>>

\* lines 136-140: get_file raises; print the instructions and re-raise
C8_Swallow ==
    /\ pc = "get_file"
    /\ out' = Append(out, Msg("download_error"))
    /\ pc' = "tar_open"
    /\ UNCHANGED <<tokVars, parseVars, loadVars, vocabVars, vecVars,
                   modelVars, demoVars>>
GetFileRaises ==
    /\ pc = "get_file"
    /\ out' = Append(out, Msg("download_error"))
    /\ pc' = "raised_get_file"
    /\ UNCHANGED <<tokVars, parseVars, loadVars, vocabVars, vecVars,
                   modelVars, demoVars>>

\* line 141
TarOpenOk ==
    /\ pc = "tar_open"
    /\ tar' = "open"
    /\ pc' = "extract"
    /\ UNCHANGED <<tokVars, parseVars, path, train_stories, test_stories,
                   vocabVars, vecVars, modelVars, demoVars, out>>

TarOpenRaises ==
    /\ pc = "tar_open"
    /\ pc' = "raised_tarfile_open"
    /\ UNCHANGED <<tokVars, parseVars, scriptVars>>

\* lines 154-158
ExtractStories ==
    /\ pc = "extract"
    /\ out' = out \o <<Msg("banner"), Msg("extracting")>>
    /\ \E trainBlock \in Blocks, testBlock \in Blocks, reps \in TestReps :
          LET tr == get_stories(FileLines(trainBlock, 1), FALSE, None)
              te == get_stories(FileLines(testBlock, reps), FALSE, None)
          IN  IF tr.err # "none"
              THEN /\ pc' = "raised_" \o tr.err
                   /\ UNCHANGED <<train_stories, test_stories>>
              ELSE IF te.err # "none"
              THEN /\ pc' = "raised_" \o te.err
                   /\ train_stories' = tr.data
                   /\ UNCHANGED test_stories
              ELSE /\ pc' = "vocab"
                   /\ train_stories' = tr.data
                   /\ test_stories' = te.data
    /\ UNCHANGED <<tokVars, parseVars, path, tar, vocabVars, vecVars,
                   modelVars, demoVars>>

\* lines 160-168; max() of no records raises ValueError
BuildVocab ==
    /\ pc = "vocab"
    /\ vocab' = Sorted(VocabSet(train_stories \o test_stories))
    /\ vocab_size' = Len(vocab') + 1
    /\ IF train_stories \o test_stories = <<>>
       THEN /\ pc' = "raised_ValueError"
            /\ UNCHANGED <<story_maxlen, query_maxlen>>
       ELSE /\ story_maxlen' = StoryMaxlen(train_stories, test_stories)
            /\ query_maxlen' = QueryMaxlen(train_stories, test_stories)
            /\ pc' = "vectorize"
    /\ UNCHANGED <<tokVars, parseVars, loadVars, word_idx, vecVars,
                   modelVars, demoVars, out>>

\* lines 180-188
Vectorize ==
    /\ pc = "vectorize"
    /\ word_idx' = WordIdx(vocab)
    /\ LET tr == vectorize_stories(train_stories, word_idx', story_maxlen,
                                   query_maxlen)
           te == vectorize_stories(test_stories, word_idx', story_maxlen,
                                   query_maxlen)
       IN  IF tr.err # "none"
           THEN /\ pc' = "raised_" \o tr.err
                /\ UNCHANGED vecVars
           ELSE IF te.err # "none"
           THEN /\ pc' = "raised_" \o te.err
                /\ inputs_train' = tr.X
                /\ queries_train' = tr.Xq
                /\ answers_train' = tr.Y
                /\ UNCHANGED <<inputs_test, queries_test, answers_test>>
           ELSE /\ pc' = "build_model"
                /\ inputs_train' = tr.X
                /\ queries_train' = tr.Xq
                /\ answers_train' = tr.Y
                /\ inputs_test' = te.X
                /\ queries_test' = te.Xq
                /\ answers_test' = te.Y
    /\ UNCHANGED <<tokVars, parseVars, loadVars, vocab, vocab_size,
                   story_maxlen, query_maxlen, modelVars, demoVars, out>>

\* lines 206-264: Model(...), model.compile(...)
BuildModel ==
    /\ pc = "build_model"
    /\ model' = "compiled"
    /\ pc' = "load_model"
    /\ UNCHANGED <<tokVars, parseVars, loadVars, vocabVars, vecVars,
                   trained, saved, demoVars, out>>

\* lines 270-272: load_model(model_name) returns a model
LoadModelOk ==
    /\ pc = "load_model"
    /\ model' = "loaded"
    /\ pc' = "run_demo"
    /\ UNCHANGED <<tokVars, parseVars, loadVars, vocabVars, vecVars,
                   trained, saved, demoVars, out>>

\* lines 273-283: load_model raises an Exception; fit, then save
C3_SkipFit ==
    /\ pc = "load_model"
    /\ saved' = TRUE
    /\ pc' = "run_demo"
    /\ UNCHANGED <<tokVars, parseVars, loadVars, vocabVars, vecVars,
                   model, trained, demoVars, out>>
TrainOnLoadFailure ==
    /\ pc = "load_model"
    /\ model' = "fitted"
    /\ trained' = TRUE
    /\ saved' = TRUE
    /\ pc' = "run_demo"
    /\ UNCHANGED <<tokVars, parseVars, loadVars, vocabVars, vecVars,
                   demoVars, out>>

\* the same, model.fit raising
FitRaises ==
    /\ pc = "load_model"
    /\ pc' = "raised_fit"
    /\ UNCHANGED <<tokVars, parseVars, scriptVars>>

\* the same, model.save raising after the fit
SaveRaises ==
    /\ pc = "load_model"
    /\ model' = "fitted"
    /\ trained' = TRUE
    /\ pc' = "raised_save"
    /\ UNCHANGED <<tokVars, parseVars, loadVars, vocabVars, vecVars,
                   saved, demoVars, out>>

\* lines 370, 292-298: test_stories[n] raises IndexError on a short list
RunDemo ==
    /\ pc = "run_demo"
    /\ demo_model' = model
    /\ IF Len(test_stories) <= DemoIndex
       THEN /\ pc' = "raised_IndexError"
            /\ UNCHANGED <<demo_story, out>>
       ELSE /\ demo_story' = test_stories[DemoIndex + 1][1]
            /\ out' = Append(out, [kind |-> "text", text |-> Join(demo_story')])
            /\ pc' = "prompt"
    /\ UNCHANGED <<tokVars, parseVars, loadVars, vocabVars, vecVars,
                   modelVars, qu, input_story, q, pred_results3, val_max2,
                   final_answer, confidence, shown>>

\* what the user may type
Inputs == {<<"q">>, <<"q", " ">>, <<>>, TextQ,
           <<"a", " ", "b", " ", "c", " ", "a">>}

Prompt == <<Msg("press_q"), Msg("ask_question")>>

\* lines 301-302: raw_input raises EOFError at the end of the input
DemoEOF ==
    /\ pc = "prompt"
    /\ shown' = Prompt
    /\ pc' = "raised_EOFError"
    /\ UNCHANGED <<tokVars, parseVars, loadVars, vocabVars, vecVars,
                   modelVars, demo_model, demo_story, qu, input_story, q,
                   pred_results3, val_max2, final_answer, confidence, out>>

\* lines 301-306: the user types exactly q
DemoQuit ==
    /\ pc = "prompt"
    /\ qu' = <<"q">>
    /\ shown' = Append(Prompt, Msg("exited"))
    /\ pc' = "exited"
    /\ UNCHANGED <<tokVars, parseVars, loadVars, vocabVars, vecVars,
                   modelVars, demo_model, demo_story, input_story, q,
                   pred_results3, val_max2, final_answer, confidence, out>>

\* the distributions model.predict may return: vocab_size scores, the
\* largest at position k (from 0) and, with tie, at the last position too
Predictions ==
    {[i \in 1..vocab_size |->
         IF i - 1 = k \/ (tie /\ i = vocab_size) THEN 2 ELSE 1] :
        k \in 0..(vocab_size - 1), tie \in BOOLEAN}

\* lines 301-318 and get_answer, lines 321-330: one iteration of the loop
\* on an input other than q
DemoAsk ==
    /\ pc = "prompt"
    /\ \E typed \in Inputs \ {<<"q">>} :
          LET v == vectorize_query(typed, word_idx, query_maxlen)
          IN  /\ qu' = typed
              /\ IF v.err # "none"
                 THEN /\ pc' = "raised_" \o v.err
                      /\ shown' = Prompt
                      /\ UNCHANGED <<q, input_story, pred_results3, val_max2,
                                     final_answer, confidence>>
                 ELSE /\ q' = v.Xq
                      /\ input_story' = <<inputs_test[DemoIndex + 1]>>
                      /\ \E pred \in Predictions : pred_results3' = pred
                      /\ val_max2' = ArgMax(pred_results3')
                      /\ final_answer' = AnswerKey(word_idx, val_max2')
                      /\ confidence' = pred_results3'[val_max2' + 1]
                      /\ shown' = Prompt \o
                             <<[kind |-> "answer", value |-> final_answer'],
                               [kind |-> "confidence", value |-> confidence']>>
                      /\ pc' = "prompt"
    /\ UNCHANGED <<tokVars, parseVars, loadVars, vocabVars, vecVars,
                   modelVars, demo_model, demo_story, out>>

Next ==
    \/ GetFileOk \/ GetFileRaises
    \/ TarOpenOk \/ TarOpenRaises
    \/ ExtractStories \/ BuildVocab \/ Vectorize \/ BuildModel
    \/ LoadModelOk \/ TrainOnLoadFailure \/ FitRaises \/ SaveRaises
    \/ RunDemo \/ DemoEOF \/ DemoQuit \/ DemoAsk

Spec == Init /\ [][Next]_vars

---------------------------------------------------------------------------
(* Claims about the script. *)

\* the positions at and after the model-building block
AfterVectorize == {"build_model", "load_model", "raised_fit", "raised_save",
                   "run_demo", "raised_IndexError", "prompt", "exited",
                   "raised_KeyError", "raised_EOFError"}

\* the positions inside or after run_demo
InRunDemo == {"raised_IndexError", "prompt", "exited", "raised_KeyError",
              "raised_EOFError"}

AllStories == train_stories \o test_stories

\* C1: after vocabulary construction word_idx maps the tokens of the
\* sorted vocabulary one-to-one onto 1..len(vocab) in sorted order and
\* vocab_size = len(vocab) + 1: no token has index 0, no two tokens share an
\* index, and every token of any train or test story, question or answer
\* has an index.
C1_VocabularyIndex ==
    pc \in AfterVectorize =>
        /\ vocab_size = Len(vocab) + 1
        /\ DOMAIN word_idx = Range(vocab)
        /\ \A i \in 1..Len(vocab) : word_idx[vocab[i]] = i
        /\ \A i, j \in 1..Len(vocab) : i < j => StrLess(vocab[i], vocab[j])
        /\ \A t \in DOMAIN word_idx : word_idx[t] \in 1..Len(vocab)
        /\ \A t, u \in DOMAIN word_idx : t # u => word_idx[t] # word_idx[u]
        /\ \A r \in 1..Len(AllStories) :
              /\ \A j \in 1..Len(AllStories[r][1]) :
                    AllStories[r][1][j] \in DOMAIN word_idx
              /\ \A j \in 1..Len(AllStories[r][2]) :
                    AllStories[r][2][j] \in DOMAIN word_idx
              /\ AllStories[r][3] \in DOMAIN word_idx

\* a vocabulary with a token that only the test file holds
C1_Witness ==
    /\ pc = "build_model"
    /\ Len(vocab) >= 5
    /\ \E t \in VocabSet(test_stories) : t \notin VocabSet(train_stories)
    /\ \E t \in VocabSet(train_stories) : t \notin VocabSet(test_stories)

\* row r of an array: maxlen entries, the indices of ws last, zeros first
C7_Row(row, ws, maxlen) ==
    /\ Len(row) = maxlen
    /\ Len(ws) <= maxlen
    /\ \A j \in 1..Len(ws) : row[maxlen - Len(ws) + j] = word_idx[ws[j]]
    /\ \A j \in 1..(maxlen - Len(ws)) : row[j] = 0

C7_Arrays(stories, X, Xq, Y) ==
    /\ Len(X) = Len(stories) /\ Len(Xq) = Len(stories) /\ Len(Y) = Len(stories)
    /\ \A r \in 1..Len(stories) :
          /\ C7_Row(X[r], stories[r][1], story_maxlen)
          /\ C7_Row(Xq[r], stories[r][2], query_maxlen)
          /\ Len(Y[r]) = vocab_size
          /\ \A j \in 1..vocab_size :
                Y[r][j] = IF j - 1 = word_idx[stories[r][3]] THEN 1 ELSE 0

\* C7: for every record of the train and test data the story row has
\* exactly story_maxlen entries and the query row exactly query_maxlen, the
\* row ends with the record's token indices in their order, none dropped,
\* all entries before them are 0, story_maxlen and query_maxlen are the
\* maxima over all records, and each of the three arrays has one row per
\* record, in input order.
C7_PaddedRows ==
    pc \in AfterVectorize =>
        /\ C7_Arrays(train_stories, inputs_train, queries_train, answers_train)
        /\ C7_Arrays(test_stories, inputs_test, queries_test, answers_test)
        /\ \E r \in 1..Len(AllStories) : Len(AllStories[r][1]) = story_maxlen
        /\ \E r \in 1..Len(AllStories) : Len(AllStories[r][2]) = query_maxlen

\* a train story and a test question that need padding
C7_Witness ==
    /\ pc = "build_model"
    /\ Len(test_stories) > DemoIndex
    /\ \E r \in 1..Len(train_stories) :
          /\ Len(train_stories[r][1]) < story_maxlen
          /\ inputs_train[r][1] = 0
          /\ inputs_train[r][story_maxlen] # 0
    /\ \E r \in 1..Len(test_stories) :
          /\ Len(test_stories[r][2]) < query_maxlen
          /\ queries_test[r][1] = 0

\* C3 as stated: on every run that reaches run_demo, model.fit has run
\* earlier in that run and the model passed to run_demo is the trained one.
C3_AlwaysFitted ==
    pc \in InRunDemo => (trained /\ demo_model = "fitted")

\* C3 as amended: on every run that reaches run_demo, either load_model
\* returned a saved model, which is the one run_demo gets, and model.fit did
\* not run, or load_model raised and model.fit and model.save ran earlier in
\* that run on the compiled model, which is the one run_demo gets.
C3_LoadedOrFitted ==
    pc \in InRunDemo =>
        /\ demo_model = model
        /\ \/ demo_model = "loaded" /\ ~trained /\ ~saved
           \/ demo_model = "fitted" /\ trained /\ saved

\* the demo prompting with the model this run has trained
C3_Witness == pc = "prompt" /\ demo_model = "fitted" /\ trained

\* the iteration of the demo loop printed an answer and a confidence
C4_Answered ==
    \E i \in 1..(Len(shown) - 1) :
        shown[i].kind = "answer" /\ shown[i + 1].kind = "confidence"

\* C4: run_demo answers questions about one fixed story, test story 10:
\* every input other than exactly 'q' is followed by a printed answer and
\* confidence and then a new prompt, and the loop ends only, and without
\* querying the model, when the input is exactly 'q'.
C4_EveryInputAnswered ==
    (pc \in {"prompt", "exited", "raised_KeyError"} /\ shown # <<>>) =>
        /\ demo_story = test_stories[DemoIndex + 1][1]
        /\ IF qu = <<"q">>
           THEN pc = "exited" /\ ~C4_Answered
           ELSE pc = "prompt" /\ C4_Answered
                   /\ input_story = <<inputs_test[DemoIndex + 1]>>

\* C8: if get_file raises, the script prints the manual-download
\* instructions, re-raises, and no later step (opening the archive,
\* extracting stories, building or training the model, the demo) runs; if
\* get_file succeeds the instructions are never printed.
C8_DownloadGuard ==
    LET printed == \E i \in 1..Len(out) : out[i].kind = "download_error"
    IN  /\ pc = "raised_get_file" => printed
        /\ printed =>
              /\ pc = "raised_get_file"
              /\ Len(out) = 1
              /\ path = "unset" /\ tar = "unset"
              /\ train_stories = <<>> /\ test_stories = <<>>
              /\ vocab = <<>> /\ vocab_size = 0
              /\ model = "unset" /\ ~trained /\ ~saved
              /\ demo_model = "unset" /\ shown = <<>>
        /\ path # "unset" => ~printed
        /\ pc \notin {"get_file", "raised_get_file"} => path # "unset"

C8_Witness ==
    /\ pc = "raised_get_file"
    /\ out = <<Msg("download_error")>>

\* C10: get_answer returns the vocabulary token whose index is the argmax
\* of the model's output, with the probability at that position; it returns
\* 'answer not found' exactly when the argmax is the reserved index 0, and
\* for an argmax in 1..len(vocab) the token is the only one with that index.
C10_AnswerIsArgmaxToken ==
    pred_results3 # <<>> =>
        /\ val_max2 \in 0..Len(vocab)
        /\ \A j \in 1..Len(pred_results3) :
              pred_results3[j] <= pred_results3[val_max2 + 1]
        /\ \A j \in 1..val_max2 :
              pred_results3[j] < pred_results3[val_max2 + 1]
        /\ confidence = pred_results3[val_max2 + 1]
        /\ (final_answer = NotFound) <=> (val_max2 = 0)
        /\ val_max2 >= 1 =>
              /\ final_answer = vocab[val_max2]
              /\ \A t \in DOMAIN word_idx :
                    word_idx[t] = val_max2 => t = final_answer

\* a tie in the output resolved to the first of two tokens
C10_Witness ==
    /\ pc = "prompt"
    /\ pred_results3 # <<>>
    /\ val_max2 >= 1 /\ val_max2 < Len(vocab)
    /\ pred_results3[vocab_size] = pred_results3[val_max2 + 1]
    /\ final_answer = vocab[val_max2]

---------------------------------------------------------------------------
(* C5, C9, C2: what parse_stories and get_stories return, stated from the  *)
(* lines read.                                                             *)

\* the positions of the question lines read
QPos == {p \in 1..Len(lines) : lines[p].tab}

\* the record a question line at position p produces is data[Rank(p)]
Rank(p) == Cardinality({r \in QPos : r <= p})

\* where the story of line p starts: the last line numbered 1 at or before p
StoryStart(p) ==
    LET ones == {s \in 1..p : lines[s].nid = 1} \cup {1}
    IN  CHOOSE s \in ones : \A t \in ones : t <= s

\* the story of line p is numbered 1, 2, 3, ... up to p
Consecutive(p) ==
    \A j \in StoryStart(p)..p : lines[j].nid = j - StoryStart(p) + 1

\* what the story buffer holds for the line at position j
Sentence(j) == IF lines[j].tab THEN EmptyStr ELSE tokenize(lines[j].text)

\* C5: with only_supporting=True the substory of a question is exactly the
\* sentences at the supporting line ids of that question line, in the
\* listed order, ids counting the lines of the current story from 1 with
\* earlier question lines occupying their own id; in a story numbered
\* consecutively from 1 the listed id is the number of the selected line,
\* and after the line with id n the story buffer has exactly n entries.
C5_SupportingOnly ==
    (only_supporting /\ pc \in {"parse", "parsed"}) =>
        /\ Len(data) = Cardinality(QPos)
        /\ \A p \in QPos :
              LET sub == data[Rank(p)][1]
                  sp  == lines[p].supporting
              IN  /\ Len(sub) = Len(sp)
                  /\ \A i \in 1..Len(sp) :
                        /\ sub[i] = Sentence(StoryStart(p) + sp[i] - 1)
                        /\ Consecutive(p) =>
                              lines[StoryStart(p) + sp[i] - 1].nid = sp[i]
        /\ (lines # <<>> /\ Consecutive(Len(lines))) =>
              Len(story) = lines[Len(lines)].nid

\* two facts listed out of line order in a consecutively numbered story
C5_Witness ==
    /\ only_supporting /\ pc = "parsed"
    /\ \E p \in QPos :
          /\ Consecutive(p)
          /\ Len(lines[p].supporting) = 2
          /\ lines[p].supporting[1] > lines[p].supporting[2]
          /\ data[Rank(p)][1][1] # data[Rank(p)][1][2]

\* the statement lines of the story of question p that precede it
StatementsBefore(p) == {j \in StoryStart(p)..(p - 1) : ~lines[j].tab}

\* C9: with only_supporting=False there is exactly one record per question
\* line, in input order, holding the tokenized question, the answer, and as
\* substory all statement sentences of the current story that precede the
\* question, in their order, earlier question lines excluded; a line with
\* id 1 starts a new story, so nothing of an earlier story is in it.
C9_AllPreceding ==
    (~only_supporting /\ pc \in {"parse", "parsed"}) =>
        /\ Len(data) = Cardinality(QPos)
        /\ \A p \in QPos :
              LET rec == data[Rank(p)]
                  sb  == StatementsBefore(p)
              IN  /\ Len(rec[1]) = Cardinality(sb)
                  /\ \A j \in sb :
                        rec[1][Cardinality({i \in sb : i <= j})]
                            = tokenize(lines[j].text)
                  /\ rec[2] = tokenize(lines[p].text)
                  /\ rec[3] = lines[p].a

\* a second story whose question follows an earlier question of the file
C9_Witness ==
    /\ ~only_supporting /\ pc = "parsed"
    /\ \E p \in QPos :
          /\ StoryStart(p) > 1
          /\ Rank(p) = 2
          /\ data[Rank(p)][1] # <<>>
          /\ data[1][1] # data[2][1]
          /\ data[1][3] # data[2][3]

\* the parsed records of the lines read, each story flattened
C2_Flat ==
    LET d == parse_stories(lines, only_supporting).data
    IN  [i \in 1..Len(d) |-> <<flatten(d[i][1]), d[i][2], d[i][3]>>]

\* C2: with max_length supplied get_stories returns, in input order, exactly
\* the flattened stories of at most max_length tokens, and with max_length
\* None it returns all of them.  (A max_length of 0 is read here the way the
\* code reads it, as not supplied.)
C2_KeepsAtMostMaxLength ==
    pc = "got" =>
        data = SelectSeq(C2_Flat,
                         LAMBDA rec : \/ max_length \in {None, 0}
                                      \/ Len(rec[1]) <= max_length)

---------------------------------------------------------------------------
(* C6 *)

C6_Class(c) == IF IsNonWord(c) THEN "nonword" ELSE "word"

\* i starts a maximal run of characters of one class
C6_RunStart(s, i) ==
    i \in 1..Len(s) /\ (i = 1 \/ C6_Class(s[i]) # C6_Class(s[i - 1]))

\* the last position of the maximal run that starts at i
C6_RunEnd(s, i) ==
    CHOOSE j \in i..Len(s) :
        /\ \A k \in i..j : C6_Class(s[k]) = C6_Class(s[i])
        /\ j = Len(s) \/ C6_Class(s[j + 1]) # C6_Class(s[i])

\* the positions of the run starting at i that hold no whitespace
C6_Solid(s, i) == {k \in i..C6_RunEnd(s, i) : s[k] \notin Whitespace}

C6_Min(S) == CHOOSE x \in S : \A y \in S : x <= y
C6_Max(S) == CHOOSE x \in S : \A y \in S : x >= y

\* the starts of the runs that are not empty after stripping
C6_Kept(s) == {i \in 1..Len(s) : C6_RunStart(s, i) /\ C6_Solid(s, i) # {}}

====
